---- MODULE Spec2Model ----
(***************************************************************************)
(* A model of the ugor file service: the Files table, the File entity      *)
(* built from a request, the PUT / GET / DELETE handlers with their        *)
(* conditional headers and the merge of old and new file information, the  *)
(* Finder behind the FIND handler, and write requests served concurrently. *)
(*                                                                         *)
(* Strings are sequences of character codes, so that the substring test    *)
(* the handlers apply to entity-tag headers is modelled as the code        *)
(* performs it.  An optional value (Python's None or a string) is the      *)
(* empty tuple (None) or a one-element tuple holding the string.           *)
(***************************************************************************)
EXTENDS Integers, Sequences, FiniteSets, TLC

VARIABLES files, now, req, resp, client, writers

vars == <<files, now, req, resp, client, writers>>

----------------------------------------------------------------------------
(* Bounds of the model *)

\* The clock runs from 0 to MaxTime.
MaxTime == 2
\* Request bodies are byte sequences of length at most MaxLen.
MaxLen == 1
\* At most MaxPopulated of the optional metadata columns of a row are
\* non-NULL at any time.
MaxPopulated == 2

----------------------------------------------------------------------------
(* Characters and strings *)

\* The double quote that from_request puts around the digest.
QUOTE == 34
\* Code of the character "0"; digit d is the character ZERO + d.
ZERO == 48
COMMA == 44
SPACE == 32

NONE == <<>>
Some(s) == <<s>>

\* Python truthiness of an optional string: None and "" are falsy.
Truthy(o) == o /= NONE /\ o[1] /= <<>>

\* `needle in haystack` on Python strings.
IsSubstring(needle, haystack) ==
    \E i \in 0..(Len(haystack) - Len(needle)) :
        SubSeq(haystack, i + 1, i + Len(needle)) = needle

\* Sample metadata strings: "", "x" and "y".
EMPTY == <<>>
StrX == <<120>>
StrY == <<121>>
MetaValues == {EMPTY, StrX, StrY}

----------------------------------------------------------------------------
(* Time *)

\* arrow.utcnow().isoformat(): the instant as a fixed-width string.
IsoFormat(t) == <<ZERO + (t \div 10), ZERO + (t % 10)>>

\* arrow.get(s): the instant a timestamp string denotes.
ArrowGet(s) == (s[1] - ZERO) * 10 + (s[2] - ZERO)

Times == 0..MaxTime

----------------------------------------------------------------------------
(* Contents and entity tags *)

\* The request bodies: n zero bytes, for n up to MaxLen.
Contents == {[i \in 1..n |-> 0] : n \in 0..MaxLen}

\* Width of a digest.  sha256(...).hexdigest() has a fixed width and is
\* taken to be free of collisions; the digest here is the content, each
\* byte b as the digit b + 1, padded with the digit 0 to the width.
HashWidth == MaxLen + 2

HexDigest(content) ==
    [i \in 1..HashWidth |->
        IF i <= Len(content) THEN ZERO + 1 + content[i] ELSE ZERO]

\* etag = '"' + sha256(request.data).hexdigest() + '"'
ETag(content) == <<QUOTE>> \o HexDigest(content) \o <<QUOTE>>

----------------------------------------------------------------------------
(* The File entity *)

\* Fields of the File dataclass that are not custom file headers.
IgnoreFields == {"name", "content", "etag", "modified", "mime", "encoding"}

\* The remaining fields of File, in declaration order.
ExtFieldSeq ==
    <<"description", "tag", "tag2", "tag3",
      "data", "data2", "data3", "data4", "data5">>

ExtFields == {ExtFieldSeq[i] : i \in 1..Len(ExtFieldSeq)}

\* Optional columns of a row: NULL or a string.
OptionalFields == {"mime", "encoding"} \cup ExtFields

\* str.capitalize on the names of the custom fields.
Capitalize(f) ==
    CASE f = "description" -> "Description"
      [] f = "tag"         -> "Tag"
      [] f = "tag2"        -> "Tag2"
      [] f = "tag3"        -> "Tag3"
      [] f = "data"        -> "Data"
      [] f = "data2"       -> "Data2"
      [] f = "data3"       -> "Data3"
      [] f = "data4"       -> "Data4"
      [] f = "data5"       -> "Data5"

\* field_to_header: f'File-{field.name.capitalize()}'
FieldToHeader(f) == "File-" \o Capitalize(f)

\* request.headers.get(key): None when the header is not in the request.
HeaderGet(headers, key) ==
    IF key \in DOMAIN headers THEN Some(headers[key]) ELSE NONE

\* `value or None`
OrNone(o) == IF Truthy(o) THEN o ELSE NONE

\* File.from_request, with t the reading of the clock.
FromRequest(name, r, t) ==
    [f \in IgnoreFields \cup ExtFields |->
        CASE f = "name"     -> name
          [] f = "content"  -> r.data
          [] f = "etag"     -> ETag(r.data)
          [] f = "modified" -> IsoFormat(t)
          [] f = "mime"     -> HeaderGet(r.headers, "Content-Type")
          [] f = "encoding" -> HeaderGet(r.headers, "Content-Encoding")
          [] OTHER          -> OrNone(HeaderGet(r.headers, FieldToHeader(f)))]

\* Number of optional columns of a file that hold a value.
Populated(file) == Cardinality({f \in OptionalFields : file[f] /= NONE})

----------------------------------------------------------------------------
(* The repository: the Files table, one row per name *)

\* fetch: the row exists (otherwise NoSuchFile is raised).
Exists(db, name) == name \in DOMAIN db

\* fetch: File.from_row of the row of the name.
Fetch(db, name) == db[name]

\* Variant of create that replaces the table by the new row.
CreateAlone(db, file) == [n \in {file.name} |-> file]

\* create: INSERT INTO Files (all fields).  The handlers, run one at a
\* time, create a row only after fetch found none.
Create(db, file) ==
    [n \in DOMAIN db \cup {file.name} |->
        IF n = file.name THEN file ELSE db[n]]

\* Variant of update whose SET list leaves out modified.
UpdateKeepsModified(db, file) ==
    [n \in DOMAIN db |->
        IF n = file.name
        THEN [f \in DOMAIN db[n] |->
                IF f \in {"name", "modified"} THEN db[n][f] ELSE file[f]]
        ELSE db[n]]

\* Variant of update whose SET list leaves out etag.
UpdateKeepsEtag(db, file) ==
    [n \in DOMAIN db |->
        IF n = file.name
        THEN [f \in DOMAIN db[n] |->
                IF f \in {"name", "etag"} THEN db[n][f] ELSE file[f]]
        ELSE db[n]]

\* update: UPDATE Files SET every field but name WHERE name = :name.
Update(db, file) ==
    [n \in DOMAIN db |->
        IF n = file.name
        THEN [f \in DOMAIN db[n] |-> IF f = "name" THEN db[n][f] ELSE file[f]]
        ELSE db[n]]

\* Variant of delete without its WHERE clause: every row is removed.
DeleteEveryRow(db, name) == [n \in {} |-> db[n]]

\* Variant of delete that removes no row.
DeleteNothing(db, name) == db

\* delete: DELETE FROM Files WHERE name = ?.
Delete(db, name) == [n \in DOMAIN db \ {name} |-> db[n]]

----------------------------------------------------------------------------
(* Requests and responses *)

\* The names of the files are the characters of their paths.
\* "test.txt"
TestTxt == <<116, 101, 115, 116, 46, 116, 120, 116>>
\* "peter.txt"
PeterTxt == <<112, 101, 116, 101, 114, 46, 116, 120, 116>>

\* A request or response without headers; the table without rows.
NoHeaders == [k \in {} |-> k]
NoRows == [n \in {} |-> n]

\* json is the body of a FIND request, a JSON object.
NoReq ==
    [method |-> "NONE", name |-> <<>>, data |-> <<>>, headers |-> NoHeaders,
     json |-> NoHeaders]

NoResp == [code |-> 0, body |-> <<>>, error |-> "", headers |-> NoHeaders]

\* 'application/octet-stream'
OctetStream ==
    <<97, 112, 112, 108, 105, 99, 97, 116, 105, 111, 110, 47, 111, 99, 116, 101, 116, 45, 115, 116, 114, 101, 97, 109>>

\* handle_errors: an AppError becomes (message, code); the table is as
\* it was when the error was raised.
Raise(db, code, message) ==
    [files |-> db,
     resp  |-> [code |-> code, body |-> <<>>, error |-> message,
                headers |-> NoHeaders]]

\* The Etag and Last-Modified headers of the response to a PUT.
WriteHeaders(file) ==
    ("Etag" :> file.etag) @@ ("Last-Modified" :> file.modified)

\* The headers of the response to a GET: those whose value is not None.
ReadHeaders(file) ==
    LET all == [h \in {"Etag", "Last-Modified", "Content-Type",
                       "Content-Encoding"}
                      \cup {FieldToHeader(f) : f \in ExtFields} |->
                  CASE h = "Etag"             -> Some(file.etag)
                    [] h = "Last-Modified"    -> Some(file.modified)
                    [] h = "Content-Type"     ->
                         IF Truthy(file.mime) THEN file.mime
                         ELSE Some(OctetStream)
                    [] h = "Content-Encoding" -> file.encoding
                    [] OTHER ->
                         file[CHOOSE f \in ExtFields : FieldToHeader(f) = h]]
    IN  [h \in {k \in DOMAIN all : all[k] /= NONE} |-> all[h][1]]

----------------------------------------------------------------------------
(* Conditionals *)

\* Variant of the If-Match test that never fails.
IfMatchIgnored(old, headers) == FALSE

\* If-Match of PUT and DELETE: the stored etag is not in the header.
IfMatchFails(old, headers) ==
    /\ Truthy(HeaderGet(headers, "If-Match"))
    /\ ~IsSubstring(old.etag, headers["If-Match"])

\* Variant of the If-Unmodified-Since test with m >= t.
UnmodifiedSinceFailsOnTie(old, headers) ==
    /\ Truthy(HeaderGet(headers, "If-Unmodified-Since"))
    /\ ArrowGet(old.modified) >= ArrowGet(headers["If-Unmodified-Since"])

\* If-Unmodified-Since of PUT and DELETE: m > t.
UnmodifiedSinceFails(old, headers) ==
    /\ Truthy(HeaderGet(headers, "If-Unmodified-Since"))
    /\ ArrowGet(old.modified) > ArrowGet(headers["If-Unmodified-Since"])

\* Variant of the If-Modified-Since test with m < t.
ModifiedSinceHitsStrictly(file, headers) ==
    /\ Truthy(HeaderGet(headers, "If-Modified-Since"))
    /\ ArrowGet(file.modified) < ArrowGet(headers["If-Modified-Since"])

\* If-Modified-Since of GET: m <= t.
ModifiedSinceHits(file, headers) ==
    /\ Truthy(HeaderGet(headers, "If-Modified-Since"))
    /\ ArrowGet(file.modified) <= ArrowGet(headers["If-Modified-Since"])

\* If-None-Match of GET: the stored etag is in the header.
NoneMatchHits(file, headers) ==
    /\ Truthy(HeaderGet(headers, "If-None-Match"))
    /\ IsSubstring(file.etag, headers["If-None-Match"])

----------------------------------------------------------------------------
(* Merge of old and new info in write_file *)

\* mime and encoding: the old value when the new one is falsy.
MergeTransport(new, old) == IF ~Truthy(new) /\ Truthy(old) THEN old ELSE new

\* Variant of the merge of a custom field that tests the new value, as the
\* merge of mime and encoding does, instead of the presence of the header.
MergeCustomWhenFalsy(f, file, old, headers) ==
    IF ~Truthy(file[f]) /\ Truthy(old[f]) THEN old[f] ELSE file[f]

\* A custom field: the old value when its header is not in the request
\* and the old value is truthy.
MergeCustom(f, file, old, headers) ==
    IF FieldToHeader(f) \notin DOMAIN headers /\ Truthy(old[f])
    THEN old[f]
    ELSE file[f]

\* Variant of the merge that treats content as it treats mime: an empty
\* new content gives way to the old one, with its etag.
MergeKeepsContent(file, old, headers) ==
    [f \in DOMAIN file |->
        CASE f \in {"mime", "encoding"} -> MergeTransport(file[f], old[f])
          [] f \in ExtFields            -> MergeCustom(f, file, old, headers)
          [] f \in {"content", "etag"}  ->
               IF file["content"] = <<>> THEN old[f] ELSE file[f]
          [] OTHER                      -> file[f]]

Merge(file, old, headers) ==
    [f \in DOMAIN file |->
        CASE f \in {"mime", "encoding"} -> MergeTransport(file[f], old[f])
          [] f \in ExtFields            -> MergeCustom(f, file, old, headers)
          [] OTHER                      -> file[f]]

----------------------------------------------------------------------------
(* The handlers, as functions of the table, the request and the clock *)

\* Variant of the initial write in which an If-Match fails when there is
\* no file to match.
InitialWriteChecksMatch(db, r, file) ==
    IF Truthy(HeaderGet(r.headers, "If-Match"))
    THEN Raise(db, 412, "Etag mismatch")
    ELSE [files |-> Create(db, file),
          resp  |-> [code |-> 201, body |-> <<>>, error |-> "",
                     headers |-> WriteHeaders(file)]]

\* Variant of the initial write in which a conditional PUT of a missing
\* name is answered with NoSuchFile.
InitialWriteNotFound(db, r, file) ==
    IF \/ Truthy(HeaderGet(r.headers, "If-Match"))
       \/ Truthy(HeaderGet(r.headers, "If-Unmodified-Since"))
    THEN Raise(db, 404, "No such file")
    ELSE [files |-> Create(db, file),
          resp  |-> [code |-> 201, body |-> <<>>, error |-> "",
                     headers |-> WriteHeaders(file)]]

\* write_file when fetch raises NoSuchFile: code = 201 and the candidate
\* is created; no conditional header is looked at.
InitialWrite(db, r, file) ==
    [files |-> Create(db, file),
     resp  |-> [code |-> 201, body |-> <<>>, error |-> "",
                headers |-> WriteHeaders(file)]]

\* Variant of the update path that updates the row before it evaluates
\* the conditionals.
UpdateWriteLateCheck(db, r, file) ==
    LET old    == Fetch(db, r.name)
        merged == Merge(file, old, r.headers)
    IN  IF IfMatchFails(old, r.headers)
        THEN Raise(Update(db, merged), 412, "Etag mismatch")
        ELSE IF UnmodifiedSinceFails(old, r.headers)
        THEN Raise(Update(db, merged), 412, "File modified")
        ELSE [files |-> Update(db, merged),
              resp  |-> [code |-> 204, body |-> <<>>, error |-> "",
                         headers |-> WriteHeaders(merged)]]

\* write_file when fetch returns the old file: the conditionals, then the
\* merge, then the update with code 204.
UpdateWrite(db, r, file) ==
    LET old == Fetch(db, r.name)
    IN  IF IfMatchFails(old, r.headers)
        THEN Raise(db, 412, "Etag mismatch")
        ELSE IF UnmodifiedSinceFails(old, r.headers)
        THEN Raise(db, 412, "File modified")
        ELSE LET merged == Merge(file, old, r.headers)
             IN  [files |-> Update(db, merged),
                  resp  |-> [code |-> 204, body |-> <<>>, error |-> "",
                             headers |-> WriteHeaders(merged)]]

\* write_file: PUT /<name>.
WriteFileResult(db, r, t) ==
    LET file == FromRequest(r.name, r, t)
    IN  IF ~Exists(db, r.name)
        THEN InitialWrite(db, r, file)
        ELSE UpdateWrite(db, r, file)

\* get_file: GET /<name>.
GetFileResult(db, r) ==
    IF ~Exists(db, r.name)
    THEN Raise(db, 404, "No such file")
    ELSE LET file == Fetch(db, r.name)
             hit  == \/ ModifiedSinceHits(file, r.headers)
                     \/ NoneMatchHits(file, r.headers)
         IN  [files |-> db,
              resp  |-> [code    |-> IF hit THEN 304 ELSE 200,
                         body    |-> IF hit THEN <<>> ELSE file.content,
                         error   |-> "",
                         headers |-> ReadHeaders(file)]]

\* Variant of delete_file that does not fetch the file when the request
\* carries no conditional header, and deletes whatever is there.
DeleteFileResultUnfetched(db, r) ==
    IF ~Exists(db, r.name)
    THEN IF \/ Truthy(HeaderGet(r.headers, "If-Match"))
            \/ Truthy(HeaderGet(r.headers, "If-Unmodified-Since"))
         THEN Raise(db, 404, "No such file")
         ELSE [files |-> Delete(db, r.name),
               resp  |-> [code |-> 204, body |-> <<>>, error |-> "",
                          headers |-> NoHeaders]]
    ELSE LET file == Fetch(db, r.name)
         IN  IF IfMatchFails(file, r.headers)
             THEN Raise(db, 412, "Etag mismatch")
             ELSE IF UnmodifiedSinceFails(file, r.headers)
             THEN Raise(db, 412, "File modified")
             ELSE [files |-> Delete(db, r.name),
                   resp  |-> [code |-> 204, body |-> <<>>, error |-> "",
                              headers |-> NoHeaders]]

\* delete_file: DELETE /<name>.
DeleteFileResult(db, r) ==
    IF ~Exists(db, r.name)
    THEN Raise(db, 404, "No such file")
    ELSE LET file == Fetch(db, r.name)
         IN  IF IfMatchFails(file, r.headers)
             THEN Raise(db, 412, "Etag mismatch")
             ELSE IF UnmodifiedSinceFails(file, r.headers)
             THEN Raise(db, 412, "File modified")
             ELSE [files |-> Delete(db, r.name),
                   resp  |-> [code |-> 204, body |-> <<>>, error |-> "",
                              headers |-> NoHeaders]]

----------------------------------------------------------------------------
(* The Finder: FIND /<path_prefix> with the filters in a JSON object *)

\* The path separator and the wildcard of GLOB patterns.
SLASH == 47
STAR == 42

\* str.count of a character.
Count(s, c) == Cardinality({i \in 1..Len(s) : s[i] = c})

\* SQLite's GLOB for patterns made of literal characters and "*", which
\* matches any run of characters, "/" included.
RECURSIVE Glob(_, _)
Glob(pattern, s) ==
    IF pattern = <<>>
    THEN s = <<>>
    ELSE IF Head(pattern) = STAR
    THEN \E k \in 0..Len(s) : Glob(Tail(pattern), SubSeq(s, k + 1, Len(s)))
    ELSE /\ s /= <<>>
         /\ Head(s) = Head(pattern)
         /\ Glob(Tail(pattern), Tail(s))

\* regex.match for a pattern of literal characters: the name starts with
\* the pattern.
ReMatch(pattern, s) ==
    Len(pattern) <= Len(s) /\ SubSeq(s, 1, Len(pattern)) = pattern

\* pascal_to_snake on the keys of the JSON object.
PascalToSnake(key) ==
    CASE key = "nameRe"    -> "name_re"
      [] key = "sizeGt"    -> "size_gt"
      [] key = "sizeLt"    -> "size_lt"
      [] key = "modBefore" -> "mod_before"
      [] key = "modAfter"  -> "mod_after"
      [] OTHER             -> key

\* The filter fields of Finder: strings, and the sizes, which are integers.
StringFilters ==
    {"name", "name_re", "encoding", "mime", "modified", "mod_before",
     "mod_after", "tag", "tag1", "tag2", "tag3"}

SizeFilters == {"size", "size_gt", "size_lt"}

\* Finder(path_prefix, **params): every filter is None unless the caller
\* gives it, and recursive is True unless the caller gives it.
Finder(path_prefix, params) ==
    LET given == [f \in {PascalToSnake(k) : k \in DOMAIN params} |->
                    params[CHOOSE k \in DOMAIN params : PascalToSnake(k) = f]]
    IN  [f \in {"path_prefix", "recursive"} \cup StringFilters
                \cup SizeFilters |->
            CASE f = "path_prefix" -> path_prefix
              [] f = "recursive"   ->
                   IF f \in DOMAIN given THEN given[f] ELSE TRUE
              [] OTHER             ->
                   IF f \in DOMAIN given THEN Some(given[f]) ELSE NONE]

\* The groups of which at most one field may be given.
Exclusive ==
    {{"name", "name_re"},
     {"size", "size_gt", "size_lt"},
     {"modified", "mod_before", "mod_after"}}

\* Truthiness of an optional integer: None and 0 are falsy.
NonZero(o) == o /= NONE /\ o[1] /= 0

\* Variant of the validation that counts the fields holding a truthy
\* value, as the query template does.
InvalidWhenTruthy(finder) ==
    \E group \in Exclusive :
        Cardinality({f \in group :
                        IF f \in SizeFilters THEN NonZero(finder[f])
                        ELSE Truthy(finder[f])}) > 1

\* __post_init__: more than one field of a group is not None.
Invalid(finder) ==
    \E group \in Exclusive :
        Cardinality({f \in group : finder[f] /= NONE}) > 1

\* unixepoch(:modified): the instant of a timestamp string.
UnixEpoch(s) == ArrowGet(s)

\* FindView: the columns the query reads, with size the byte length of
\* the content and modified the instant of the modification time.
FindView(db) ==
    [n \in DOMAIN db |->
        [name     |-> db[n].name,
         encoding |-> db[n].encoding,
         mime     |-> db[n].mime,
         size     |-> Len(db[n].content),
         modified |-> UnixEpoch(db[n].modified),
         tag      |-> db[n].tag,
         tag2     |-> db[n].tag2,
         tag3     |-> db[n].tag3]]

\* The clauses of the query template.  A clause is rendered when its
\* parameter is truthy; a comparison with a NULL column is not true.

\* name GLOB :name
NameClause(finder, row) ==
    Truthy(finder.name) => Glob(finder.name[1], row.name)

\* encoding = :encoding
EncodingClause(finder, row) ==
    Truthy(finder.encoding) => row.encoding = finder.encoding

\* mime GLOB :mime
MimeClause(finder, row) ==
    Truthy(finder.mime) =>
        row.mime /= NONE /\ Glob(finder.mime[1], row.mime[1])

\* size = :size, else size > :size_gt, else size < :size_lt
SizeClause(finder, row) ==
    IF NonZero(finder.size) THEN row.size = finder.size[1]
    ELSE IF NonZero(finder.size_gt) THEN row.size > finder.size_gt[1]
    ELSE IF NonZero(finder.size_lt) THEN row.size < finder.size_lt[1]
    ELSE TRUE

\* modified = unixepoch(:modified), else < :mod_before, else > :mod_after
ModifiedClause(finder, row) ==
    IF Truthy(finder.modified)
    THEN row.modified = UnixEpoch(finder.modified[1])
    ELSE IF Truthy(finder.mod_before)
    THEN row.modified < UnixEpoch(finder.mod_before[1])
    ELSE IF Truthy(finder.mod_after)
    THEN row.modified > UnixEpoch(finder.mod_after[1])
    ELSE TRUE

\* Variant of the tag clause that looks at the first slot only.
TagClauseFirstSlot(finder, row) ==
    Truthy(finder.tag) => finder.tag = row.tag

\* :tag IN (tag, tag2, tag3)
TagClause(finder, row) ==
    Truthy(finder.tag) => finder.tag \in {row.tag, row.tag2, row.tag3}

\* tag = :tag1, tag2 = :tag2, tag3 = :tag3
SlotClauses(finder, row) ==
    /\ Truthy(finder.tag1) => row.tag = finder.tag1
    /\ Truthy(finder.tag2) => row.tag2 = finder.tag2
    /\ Truthy(finder.tag3) => row.tag3 = finder.tag3

\* name GLOB :path_prefix || '*' when the prefix is not empty, else 1
PathClause(finder, row) ==
    IF finder.path_prefix /= <<>>
    THEN Glob(finder.path_prefix \o <<STAR>>, row.name)
    ELSE TRUE

\* The names the query selects.
Select(db, finder) ==
    LET view == FindView(db)
    IN  {n \in DOMAIN view :
            /\ NameClause(finder, view[n])
            /\ EncodingClause(finder, view[n])
            /\ MimeClause(finder, view[n])
            /\ SizeClause(finder, view[n])
            /\ ModifiedClause(finder, view[n])
            /\ TagClause(finder, view[n])
            /\ SlotClauses(finder, view[n])
            /\ PathClause(finder, view[n])}

\* `if not self.recursive`: the names with as many "/" as the prefix.
NotRecursive(finder, names) ==
    IF ~finder.recursive
    THEN {n \in names : Count(n, SLASH) = Count(finder.path_prefix, SLASH)}
    ELSE names

\* `if self.name_re`: the names the regular expression matches.
NameRe(finder, names) ==
    IF Truthy(finder.name_re)
    THEN {n \in names : ReMatch(finder.name_re[1], n)}
    ELSE names

\* Finder.__call__: the query, then the two filters on its result.  The
\* result is a list without repetition, taken as the set of its names.
FinderCall(db, finder) ==
    NameRe(finder, NotRecursive(finder, Select(db, finder)))

\* Variant of find_file that answers 200 also when nothing is found.
FindFileResultAlwaysOk(db, r) ==
    LET finder == Finder(r.name, r.json)
    IN  IF Invalid(finder)
        THEN Raise(db, 400, "Invalid find parameters")
        ELSE [files |-> db,
              resp  |-> [code |-> 200, body |-> FinderCall(db, finder),
                         error |-> "", headers |-> NoHeaders]]

\* find_file: FIND /<path_prefix>.
FindFileResult(db, r) ==
    LET finder == Finder(r.name, r.json)
    IN  IF Invalid(finder)
        THEN Raise(db, 400, "Invalid find parameters")
        ELSE LET result == FinderCall(db, finder)
             IN  [files |-> db,
                  resp  |-> [code |-> IF result /= {} THEN 200 ELSE 440,
                             body |-> result, error |-> "",
                             headers |-> NoHeaders]]

----------------------------------------------------------------------------
(* Actions.  Requests are handled one at a time: a handler runs from the   *)
(* arrival of its request to its response, and the request context is     *)
(* torn down before the next request arrives.  client is what the caller  *)
(* keeps of the response to its last successful PUT of each name.         *)

Success(code) == code \in {201, 204}

\* A PUT is within the bounds when the row it leaves has at most
\* MaxPopulated optional columns set.
WithinBounds(r) ==
    LET db == WriteFileResult(files, r, now).files
    IN  Exists(db, r.name) => Populated(db[r.name]) <= MaxPopulated

WriteFile(r) ==
    /\ req = NoReq
    /\ WithinBounds(r)
    /\ LET out == WriteFileResult(files, r, now)
       IN  /\ files' = out.files
           /\ resp' = out.resp
           /\ client' =
                IF Success(out.resp.code)
                THEN [n \in DOMAIN client \cup {r.name} |->
                        IF n = r.name
                        THEN [data     |-> r.data,
                              etag     |-> out.resp.headers["Etag"],
                              modified |-> out.resp.headers["Last-Modified"]]
                        ELSE client[n]]
                ELSE client
    /\ req' = r
    /\ UNCHANGED <<now, writers>>

GetFile(r) ==
    /\ req = NoReq
    /\ LET out == GetFileResult(files, r)
       IN  /\ files' = out.files
           /\ resp' = out.resp
    /\ req' = r
    /\ UNCHANGED <<now, client, writers>>

DeleteFile(r) ==
    /\ req = NoReq
    /\ LET out == DeleteFileResult(files, r)
       IN  /\ files' = out.files
           /\ resp' = out.resp
           /\ client' =
                IF out.resp.code = 204
                THEN [n \in DOMAIN client \ {r.name} |-> client[n]]
                ELSE client
    /\ req' = r
    /\ UNCHANGED <<now, writers>>

FindFile(r) ==
    /\ req = NoReq
    /\ LET out == FindFileResult(files, r)
       IN  /\ files' = out.files
           /\ resp' = out.resp
    /\ req' = r
    /\ UNCHANGED <<now, client, writers>>

\* teardown_appcontext: the request context is closed.
Close ==
    /\ req /= NoReq
    /\ req' = NoReq
    /\ resp' = NoResp
    /\ UNCHANGED <<files, now, client, writers>>

\* Time passes between requests.
Tick ==
    /\ req = NoReq
    /\ now < MaxTime
    /\ now' = now + 1
    /\ UNCHANGED <<files, req, resp, client, writers>>

\* The requests served concurrently, each by a worker of its own.
Writers == {1, 2}

\* A worker that serves no request.
IdleWriter ==
    [pc |-> "idle", r |-> NoReq, file |-> NoRows, code |-> 0, order |-> 0]

Init ==
    /\ files = NoRows
    /\ now = 0
    /\ req = NoReq
    /\ resp = NoResp
    /\ client = NoRows
    /\ writers = [w \in Writers |-> IdleWriter]

----------------------------------------------------------------------------
(* write_file served concurrently.  Each request has a connection of its  *)
(* own; fetch and create / update are separate transactions on it, and    *)
(* nothing is locked between them, so the steps of two requests           *)
(* interleave: building the candidate, fetching the old file, and         *)
(* creating or updating the row.                                          *)

\* file = File.from_request(name, request): the candidate, stamped with
\* the time at which it is built.
Begin(w, r) ==
    /\ writers[w].pc = "idle"
    /\ writers' = [writers EXCEPT ![w] =
            [pc |-> "built", r |-> r, file |-> FromRequest(r.name, r, now),
             code |-> 0, order |-> 0]]
    /\ UNCHANGED <<files, now, req, resp, client>>

\* The first try block: fetch, the conditionals and the merge; code is 201
\* when fetch raises NoSuchFile and 204 otherwise.
FetchOld(w) ==
    /\ writers[w].pc = "built"
    /\ LET me == writers[w]
           r  == me.r
       IN  writers' = [writers EXCEPT ![w] =
               IF ~Exists(files, r.name)
               THEN [me EXCEPT !.pc = "fetched", !.code = 201]
               ELSE LET old == Fetch(files, r.name)
                    IN  IF \/ IfMatchFails(old, r.headers)
                           \/ UnmodifiedSinceFails(old, r.headers)
                        THEN [me EXCEPT !.pc = "done", !.code = 412]
                        ELSE [me EXCEPT !.pc = "fetched", !.code = 204,
                                        !.file = Merge(me.file, old, r.headers)]]
    /\ UNCHANGED <<files, now, req, resp, client>>

\* The second try block: create when code is 201, update otherwise.  The
\* INSERT of a name that has a row by now fails on the primary key (error
\* 1555); that error is raised again and the request ends in 500.  order
\* is the position of the commit among those of the requests served.
Commit(w) ==
    /\ writers[w].pc = "fetched"
    /\ LET me    == writers[w]
           clash == me.code = 201 /\ Exists(files, me.r.name)
           seq   == 1 + Cardinality({v \in Writers : writers[v].order > 0})
       IN  /\ files' = IF clash THEN files
                       ELSE IF me.code = 201 THEN Create(files, me.file)
                       ELSE Update(files, me.file)
           /\ writers' = [writers EXCEPT ![w] =
                   [me EXCEPT !.pc = "done",
                              !.code = IF clash THEN 500 ELSE me.code,
                              !.order = IF clash THEN 0 ELSE seq]]
    /\ UNCHANGED <<now, req, resp, client>>

\* delete_file up to its conditionals: fetch raises NoSuchFile (404), a
\* conditional fails (412), or the file is about to be deleted.
FetchForDelete(w, r) ==
    /\ writers[w].pc = "idle"
    /\ LET me == [IdleWriter EXCEPT !.r = r]
       IN  writers' = [writers EXCEPT ![w] =
               IF ~Exists(files, r.name)
               THEN [me EXCEPT !.pc = "done", !.code = 404]
               ELSE LET file == Fetch(files, r.name)
                    IN  IF \/ IfMatchFails(file, r.headers)
                           \/ UnmodifiedSinceFails(file, r.headers)
                        THEN [me EXCEPT !.pc = "done", !.code = 412]
                        ELSE [me EXCEPT !.pc = "checked", !.code = 204]]
    /\ UNCHANGED <<files, now, req, resp, client>>

\* files.delete(name), and the response 204.
CommitDelete(w) ==
    /\ writers[w].pc = "checked"
    /\ LET me  == writers[w]
           seq == 1 + Cardinality({v \in Writers : writers[v].order > 0})
       IN  /\ files' = Delete(files, me.r.name)
           /\ writers' = [writers EXCEPT ![w] =
                   [me EXCEPT !.pc = "done", !.order = seq]]
    /\ UNCHANGED <<now, req, resp, client>>

\* The responses are sent and the request contexts torn down.
Finish ==
    /\ \A w \in Writers : writers[w].pc \in {"idle", "done"}
    /\ \E w \in Writers : writers[w].pc = "done"
    /\ writers' = [w \in Writers |-> IdleWriter]
    /\ UNCHANGED <<files, now, req, resp, client>>

----------------------------------------------------------------------------
(* The requests of the callers *)

\* An entity tag no content has.
BogusTag == <<QUOTE, ZERO + 1, ZERO + 2, ZERO + 3, QUOTE>>

ContentTags == {ETag(c) : c \in Contents}

\* Header values listing one or two entity tags, and the empty value.
TagHeaderValues ==
    {EMPTY}
    \cup ContentTags \cup {BogusTag}
    \cup {p[1] \o <<COMMA, SPACE>> \o p[2] :
            p \in {q \in ContentTags \X (ContentTags \cup {BogusTag}) :
                      q[1] /= q[2]}}

\* Header values holding a timestamp, and the empty value.
TimeHeaderValues == {EMPTY} \cup {IsoFormat(t) : t \in Times}

\* The header maps with the key absent or set to one of the values.
Optional(key, values) == {NoHeaders} \cup {key :> v : v \in values}

Both(A, B) == {a @@ b : a \in A, b \in B}

\* test.txt receives every request below; peter.txt is a second file that
\* is written with one content, read and deleted without conditions.
Names == {TestTxt, PeterTxt}

LongContent == [i \in 1..MaxLen |-> 0]

WriteConditions ==
    Both(Optional("If-Match", TagHeaderValues),
         Optional("If-Unmodified-Since", TimeHeaderValues))

ReadConditions ==
    Both(Optional("If-Modified-Since", TimeHeaderValues),
         Optional("If-None-Match", TagHeaderValues))

PutRequests ==
    [method : {"PUT"}, name : {TestTxt}, data : Contents,
     headers : WriteConditions \cup {"File-Tag" :> StrX}, json : {NoHeaders}]
    \cup [method : {"PUT"}, name : {PeterTxt}, data : {LongContent},
          headers : {NoHeaders}, json : {NoHeaders}]

GetRequests ==
    [method : {"GET"}, name : {TestTxt}, data : {<<>>},
     headers : ReadConditions, json : {NoHeaders}]
    \cup [method : {"GET"}, name : {PeterTxt}, data : {<<>>},
          headers : {NoHeaders}, json : {NoHeaders}]

DeleteRequests ==
    [method : {"DELETE"}, name : {TestTxt}, data : {<<>>},
     headers : WriteConditions, json : {NoHeaders}]
    \cup [method : {"DELETE"}, name : {PeterTxt}, data : {<<>>},
          headers : {NoHeaders}, json : {NoHeaders}]

\* Requests on one name without conditional headers, with one content and
\* at most one metadata header each.
MetaHeaders ==
    {"Content-Type", "Content-Encoding"}
    \cup {FieldToHeader(f) : f \in ExtFields}

MetaMaps == UNION {Optional(h, MetaValues) : h \in MetaHeaders}

MergePutRequests ==
    [method : {"PUT"}, name : {TestTxt}, data : {LongContent},
     headers : MetaMaps, json : {NoHeaders}]

MergeGetRequests ==
    [method : {"GET"}, name : {TestTxt}, data : {<<>>},
     headers : {NoHeaders}, json : {NoHeaders}]

MergeDeleteRequests ==
    [method : {"DELETE"}, name : {TestTxt}, data : {<<>>},
     headers : {NoHeaders}, json : {NoHeaders}]

\* The files of the search: names as the characters of their paths.
\* "testfile"
TestFile == <<116, 101, 115, 116, 102, 105, 108, 101>>
\* "children/a.txt"
ChildA == <<99, 104, 105, 108, 100, 114, 101, 110, 47, 97, 46, 116, 120, 116>>
\* "children/a/b.txt"
ChildAB == <<99, 104, 105, 108, 100, 114, 101, 110, 47, 97, 47, 98, 46, 116, 120, 116>>
\* "childrenX.txt"
ChildrenX == <<99, 104, 105, 108, 100, 114, 101, 110, 88, 46, 116, 120, 116>>
\* "children"
Children == <<99, 104, 105, 108, 100, 114, 101, 110>>
\* "*.txt"
AnyTxt == <<42, 46, 116, 120, 116>>

\* Each file is written with the metadata headers of its own and any
\* content.
FindHeaders(name) ==
    CASE name = TestFile  -> ("File-Tag" :> StrX) @@ ("File-Tag2" :> StrY)
      [] name = ChildA    -> ("File-Tag2" :> StrX)
      [] name = ChildAB   -> ("File-Tag3" :> StrX) @@ ("Content-Encoding" :> StrX)
      [] name = ChildrenX -> ("File-Tag" :> StrX) @@ ("Content-Type" :> StrX)

FindNames == {TestFile, ChildA, ChildAB, ChildrenX}

FindPutRequests ==
    {[method |-> "PUT", name |-> n, data |-> c, headers |-> FindHeaders(n),
      json |-> NoHeaders] : n \in FindNames, c \in Contents}

\* The values a key of the JSON object of a FIND is given.
FindValues(key) ==
    CASE key \in {"name"}                 -> {EMPTY, AnyTxt}
      [] key \in {"nameRe"}               -> {EMPTY, Children}
      [] key \in {"encoding", "mime"}     -> {StrX}
      [] key \in {"size", "sizeGt", "sizeLt"} -> 0..MaxLen
      [] key \in {"modified"}             -> {EMPTY, IsoFormat(0)}
      [] key \in {"modBefore", "modAfter"} -> {IsoFormat(0)}
      [] key \in {"tag", "tag2"}          -> {StrX, StrY}
      [] key \in {"tag1", "tag3"}         -> {StrX}
      [] key \in {"recursive"}            -> {FALSE}

FindKeys ==
    {"name", "nameRe", "encoding", "mime", "size", "sizeGt", "sizeLt",
     "modified", "modBefore", "modAfter", "tag", "tag1", "tag2", "tag3",
     "recursive"}

\* JSON objects with one key, with two keys, and with two keys of one
\* exclusive group next to a third.
OneKey ==
    UNION {{k :> v : v \in FindValues(k)} : k \in FindKeys}

TwoKeys == {p[1] @@ p[2] : p \in {q \in OneKey \X OneKey :
                                     DOMAIN q[1] /= DOMAIN q[2]}}

SameGroup(json) ==
    \E group \in Exclusive :
        Cardinality({k \in DOMAIN json : PascalToSnake(k) \in group}) > 1

ThreeKeys ==
    {j @@ k : j \in {t \in TwoKeys : SameGroup(t)},
              k \in {"tag" :> StrX, "recursive" :> FALSE}}

FindRequests ==
    [method : {"FIND"}, name : {EMPTY, Children}, data : {<<>>},
     headers : {NoHeaders},
     json : {NoHeaders} \cup OneKey \cup TwoKeys \cup ThreeKeys]

\* Requests of every kind on the files of the search: PUT, GET and DELETE
\* without conditions, PUT and DELETE with an If-Match no file passes,
\* and FIND without filter, with one filter, and with two of one group.
FramePutRequests ==
    FindPutRequests
    \cup {[r EXCEPT !.headers = @ @@ ("If-Match" :> BogusTag)] :
            r \in FindPutRequests}

FrameGetRequests ==
    [method : {"GET"}, name : FindNames, data : {<<>>},
     headers : {NoHeaders}, json : {NoHeaders}]

FrameDeleteRequests ==
    [method : {"DELETE"}, name : FindNames, data : {<<>>},
     headers : {NoHeaders, "If-Match" :> BogusTag}, json : {NoHeaders}]

FrameFindRequests ==
    [method : {"FIND"}, name : {EMPTY, Children}, data : {<<>>},
     headers : {NoHeaders},
     json : {NoHeaders, "tag" :> StrX, ("size" :> 0) @@ ("sizeGt" :> 0)}]

\* Concurrent PUTs of one name, without conditions or with an If-Match
\* of the tag of the longest content.
RacePutRequests ==
    [method : {"PUT"}, name : {TestTxt}, data : Contents,
     headers : {NoHeaders, "If-Match" :> ETag(LongContent)},
     json : {NoHeaders}]

\* Concurrent DELETEs of that name, with the same choice of headers.
RaceDeleteRequests ==
    [method : {"DELETE"}, name : {TestTxt}, data : {<<>>},
     headers : {NoHeaders, "If-Match" :> ETag(LongContent)},
     json : {NoHeaders}]

----------------------------------------------------------------------------
(* Specifications *)

Next ==
    \/ Tick
    \/ Close
    \/ \E r \in PutRequests : WriteFile(r)
    \/ \E r \in GetRequests : GetFile(r)
    \/ \E r \in DeleteRequests : DeleteFile(r)

Spec == Init /\ [][Next]_vars

NextMerge ==
    \/ Tick
    \/ Close
    \/ \E r \in MergePutRequests : WriteFile(r)
    \/ \E r \in MergeGetRequests : GetFile(r)
    \/ \E r \in MergeDeleteRequests : DeleteFile(r)

SpecMerge == Init /\ [][NextMerge]_vars

NextRace ==
    \/ Tick
    \/ \E w \in Writers, r \in RacePutRequests : Begin(w, r)
    \/ \E w \in Writers : FetchOld(w)
    \/ \E w \in Writers : Commit(w)
    \/ \E w \in Writers, r \in RaceDeleteRequests : FetchForDelete(w, r)
    \/ \E w \in Writers : CommitDelete(w)
    \/ Finish

SpecRace == Init /\ [][NextRace]_vars

NextFind ==
    \/ Close
    \/ \E r \in FindPutRequests : WriteFile(r)
    \/ \E r \in FindRequests : FindFile(r)

SpecFind == Init /\ [][NextFind]_vars

NextFrame ==
    \/ Close
    \/ \E r \in FramePutRequests : WriteFile(r)
    \/ \E r \in FrameGetRequests : GetFile(r)
    \/ \E r \in FrameDeleteRequests : DeleteFile(r)
    \/ \E r \in FrameFindRequests : FindFile(r)

SpecFrame == Init /\ [][NextFrame]_vars

----------------------------------------------------------------------------
(* Properties *)

\* The step is the handling of a request of the method.
Handles(m) == req = NoReq /\ req'.method = m

\* The header is in the request with a non-empty value.
Supplied(headers, key) == key \in DOMAIN headers /\ headers[key] /= EMPTY

\* The entity tags a header value lists: its quoted strings.
TagsOf(s) ==
    {SubSeq(s, p[1], p[2]) :
        p \in {q \in (1..Len(s)) \X (1..Len(s)) :
                 /\ q[1] < q[2]
                 /\ s[q[1]] = QUOTE
                 /\ s[q[2]] = QUOTE
                 /\ \A k \in (q[1] + 1)..(q[2] - 1) : s[k] /= QUOTE
                 /\ Cardinality({k \in 1..(q[1] - 1) : s[k] = QUOTE}) % 2 = 0}}

\* C1: after a successful update of a stored name, each custom field
\* independently holds its prior value when its header is not in the
\* request, is cleared when the header is empty, and holds the header's
\* value when that is non-empty.
C1_MergePerField ==
    [][Handles("PUT") /\ resp'.code = 204 =>
        \A f \in ExtFields :
            LET h == FieldToHeader(f)
                n == req'.name
                hs == req'.headers
            IN  /\ h \notin DOMAIN hs => files'[n][f] = files[n][f]
                /\ h \in DOMAIN hs /\ hs[h] = EMPTY => files'[n][f] = NONE
                /\ h \in DOMAIN hs /\ hs[h] /= EMPTY =>
                       files'[n][f] = Some(hs[h])]_vars

\* An update that cleared data4 with an empty header while tag, whose
\* header it did not carry, kept its value.
C1_Witness ==
    /\ req.method = "PUT"
    /\ resp.code = 204
    /\ DOMAIN req.headers = {"File-Data4"}
    /\ req.headers["File-Data4"] = EMPTY
    /\ files[req.name]["data4"] = NONE
    /\ files[req.name]["tag"] = Some(StrY)

\* C2: an update that supplies Content-Type (or Content-Encoding) as an
\* empty string over a stored non-empty mime (or encoding) leaves the
\* stored mime (or encoding) empty.
C2_TransportCleared ==
    [][Handles("PUT") /\ resp'.code = 204 =>
        \A f \in {"mime", "encoding"} :
            LET h == IF f = "mime" THEN "Content-Type" ELSE "Content-Encoding"
                n == req'.name
                hs == req'.headers
            IN  h \in DOMAIN hs /\ hs[h] = EMPTY /\ Truthy(files[n][f])
                    => ~Truthy(files'[n][f])]_vars

\* C3: a PUT or DELETE of a stored name ends in 412 when If-Match is
\* supplied and does not list the stored etag, or If-Unmodified-Since is
\* supplied and the file was modified after it; otherwise it ends in 204.
C3_Preconditions ==
    [][(Handles("PUT") \/ Handles("DELETE")) /\ req'.name \in DOMAIN files =>
        LET old == files[req'.name]
            hs == req'.headers
            tagFails ==
                /\ Supplied(hs, "If-Match")
                /\ old.etag \notin TagsOf(hs["If-Match"])
            timeFails ==
                /\ Supplied(hs, "If-Unmodified-Since")
                /\ ArrowGet(old.modified)
                     > ArrowGet(hs["If-Unmodified-Since"])
        IN  resp'.code = IF tagFails \/ timeFails THEN 412 ELSE 204]_vars

\* A DELETE that succeeded with an If-Match listing two tags and an
\* If-Unmodified-Since equal to the current time.
C3_Witness ==
    /\ req.method = "DELETE"
    /\ resp.code = 204
    /\ Supplied(req.headers, "If-Match")
    /\ Len(req.headers["If-Match"]) > HashWidth + 2
    /\ Supplied(req.headers, "If-Unmodified-Since")
    /\ ArrowGet(req.headers["If-Unmodified-Since"]) = now
    /\ now > 0

\* C4: a request that ends in 412 leaves the table as it was.
C4_RejectedLeavesStore ==
    [][req = NoReq /\ resp'.code = 412 => files' = files]_vars

\* A PUT rejected with 412 while the file has a tag and another file is
\* stored.
C4_Witness ==
    /\ req.method = "PUT"
    /\ resp.code = 412
    /\ req.data /= files[req.name].content
    /\ files[req.name]["tag"] /= NONE
    /\ PeterTxt \in DOMAIN files

\* C5: a GET of a stored name ends in 304 without body exactly when
\* If-Modified-Since is supplied and the file was not modified after it,
\* or If-None-Match is supplied and lists the stored etag; otherwise it ends
\* in 200 with the stored content.  A GET never changes the table.
C5_ConditionalRead ==
    [][Handles("GET") =>
        /\ files' = files
        /\ req'.name \in DOMAIN files =>
             LET file == files[req'.name]
                 hs == req'.headers
                 hit ==
                     \/ /\ Supplied(hs, "If-Modified-Since")
                        /\ ArrowGet(file.modified)
                             <= ArrowGet(hs["If-Modified-Since"])
                     \/ /\ Supplied(hs, "If-None-Match")
                        /\ file.etag \in TagsOf(hs["If-None-Match"])
             IN  /\ resp'.code = IF hit THEN 304 ELSE 200
                 /\ resp'.body = IF hit THEN <<>> ELSE file.content]_vars

\* A GET of a file with content answered 304 on an If-Modified-Since equal
\* to the modification time, with no If-None-Match.
C5_Witness ==
    /\ req.method = "GET"
    /\ resp.code = 304
    /\ DOMAIN req.headers = {"If-Modified-Since"}
    /\ req.headers["If-Modified-Since"] = files[req.name].modified
    /\ files[req.name].content /= <<>>
    /\ resp.body = <<>>

\* C6: a PUT ends in 201 exactly when the name is not stored, and in 204
\* when it is stored and carries no conditional header; a GET ends in 404
\* exactly when the name is not stored; after a successful PUT the name is
\* stored and after a successful DELETE it is not.
C6_Lifecycle ==
    [][req = NoReq /\ req' /= NoReq =>
        LET n == req'.name
            stored == n \in DOMAIN files
        IN  /\ req'.method = "PUT" =>
                 /\ resp'.code = 201 <=> ~stored
                 /\ resp'.code = 204 => stored
                 /\ stored /\ DOMAIN req'.headers = {} => resp'.code = 204
                 /\ Success(resp'.code) => n \in DOMAIN files'
            /\ req'.method = "GET" => (resp'.code = 404 <=> ~stored)
            /\ req'.method = "DELETE" /\ resp'.code = 204 =>
                 stored /\ n \notin DOMAIN files']_vars

\* A successful DELETE of test.txt, written before, while peter.txt stays.
C6_Witness ==
    /\ req.method = "DELETE"
    /\ req.name = TestTxt
    /\ resp.code = 204
    /\ DOMAIN files = {PeterTxt}

\* C7: a GET without conditions of a name last written successfully (and
\* not deleted since) returns the content written, and the Etag and
\* Last-Modified the PUT returned.
C7_RoundTrip ==
    [][Handles("GET") /\ req'.name \in DOMAIN client
            /\ DOMAIN req'.headers = {} =>
        LET last == client[req'.name]
        IN  /\ resp'.code = 200
            /\ resp'.body = last.data
            /\ resp'.headers["Etag"] = last.etag
            /\ resp'.headers["Last-Modified"] = last.modified]_vars

\* A GET that returned a non-empty content written after the clock had
\* advanced.
C7_Witness ==
    /\ req.method = "GET"
    /\ resp.code = 200
    /\ req.name \in DOMAIN client
    /\ resp.body = client[req.name].data
    /\ resp.body /= <<>>
    /\ resp.headers["Last-Modified"] = client[req.name].modified
    /\ ArrowGet(client[req.name].modified) > 0

\* C8: the etag of every row is the tag of the row's content, rows with
\* the same content have the same etag, and a step changes the content of
\* a name exactly when it changes its etag.
C8_TagOfContent ==
    [][/\ \A n \in DOMAIN files' :
             files'[n].etag = ETag(files'[n].content)
       /\ \A n, m \in DOMAIN files' :
             files'[n].content = files'[m].content
                 <=> files'[n].etag = files'[m].etag
       /\ \A n \in DOMAIN files \cap DOMAIN files' :
             files'[n].content = files[n].content
                 <=> files'[n].etag = files[n].etag]_vars

\* An update of test.txt to a content other than that of peter.txt.
C8_Witness ==
    /\ req.method = "PUT"
    /\ req.name = TestTxt
    /\ resp.code = 204
    /\ PeterTxt \in DOMAIN files
    /\ files[TestTxt].content /= files[PeterTxt].content
    /\ files[TestTxt].etag /= files[PeterTxt].etag
    /\ ArrowGet(files[TestTxt].modified) > 0

\* C9: a PUT of a name that is not stored ends in 201 and stores the file
\* built from the request, whatever conditional headers it carries, and
\* leaves the other rows alone.
C9_InitialWrite ==
    [][Handles("PUT") /\ req'.name \notin DOMAIN files =>
        /\ resp'.code = 201
        /\ DOMAIN files' = DOMAIN files \cup {req'.name}
        /\ files'[req'.name] = FromRequest(req'.name, req', now)
        /\ \A m \in DOMAIN files : files'[m] = files[m]]_vars

\* A PUT that created the file although it carried an If-Match and an
\* If-Unmodified-Since.
C9_Witness ==
    /\ req.method = "PUT"
    /\ resp.code = 201
    /\ Supplied(req.headers, "If-Match")
    /\ Supplied(req.headers, "If-Unmodified-Since")
    /\ req.name \in DOMAIN files

\* C10: a PUT with a conditional header of a name that is not stored ends
\* in 404 and creates no row.
C10_ConditionalWriteNotFound ==
    [][/\ Handles("PUT")
       /\ req'.name \notin DOMAIN files
       /\ \/ Supplied(req'.headers, "If-Match")
          \/ Supplied(req'.headers, "If-Unmodified-Since")
       => resp'.code = 404 /\ files' = files]_vars

\* C10, amended: no PUT ends in 404; a PUT with a conditional header of a
\* name that is not stored ends in 201 and creates the row with the
\* content of the request.
C10_ConditionalWriteCreates ==
    [][Handles("PUT") =>
        /\ resp'.code /= 404
        /\ /\ req'.name \notin DOMAIN files
           /\ \/ Supplied(req'.headers, "If-Match")
              \/ Supplied(req'.headers, "If-Unmodified-Since")
           => /\ resp'.code = 201
              /\ req'.name \in DOMAIN files'
              /\ files'[req'.name].content = req'.data]_vars

\* A PUT carrying only an If-Unmodified-Since that created the file.
C10_Witness ==
    /\ req.method = "PUT"
    /\ resp.code = 201
    /\ DOMAIN req.headers = {"If-Unmodified-Since"}
    /\ req.headers["If-Unmodified-Since"] /= EMPTY
    /\ req.name \in DOMAIN files
    /\ files[req.name].content = req.data

\* C11: a DELETE of a name that is not stored ends in 404 and leaves the
\* table as it was, whatever conditional headers it carries; the same
\* DELETE repeated right after a successful one ends in 404.
C11_DeleteMissing ==
    [][Handles("DELETE") =>
        /\ req'.name \notin DOMAIN files =>
              resp'.code = 404 /\ files' = files
        /\ resp'.code = 204 =>
              LET again == DeleteFileResult(files', req')
              IN  again.resp.code = 404 /\ again.files = files']_vars

\* A DELETE answered 404 although it carried an If-Match and an
\* If-Unmodified-Since, while another file is stored.
C11_Witness ==
    /\ req.method = "DELETE"
    /\ resp.code = 404
    /\ Supplied(req.headers, "If-Match")
    /\ Supplied(req.headers, "If-Unmodified-Since")
    /\ DOMAIN files = {PeterTxt}

\* C12: for every table and name, delete leaves a table without the name
\* and with the rows of every other name as they were, whether or not the
\* name was stored, and a second delete of the name changes nothing.
C12_DeleteIdempotent ==
    \A n \in Names :
        LET once == Delete(files, n)
        IN  /\ DOMAIN once = DOMAIN files \ {n}
            /\ \A m \in DOMAIN once : once[m] = files[m]
            /\ Delete(once, n) = once

\* A table that holds peter.txt and from which a DELETE has removed
\* test.txt: deleting test.txt again leaves it as it is, deleting
\* peter.txt empties it.
C12_Witness ==
    /\ req.method = "DELETE"
    /\ req.name = TestTxt
    /\ resp.code = 204
    /\ PeterTxt \in DOMAIN files
    /\ Delete(files, TestTxt) = files
    /\ Delete(files, PeterTxt) = NoRows
    /\ now = MaxTime

\* The requests being served are writes of one name without conditional
\* headers, and all of them have ended.
BothDone ==
    /\ \A w \in Writers :
          /\ writers[w].pc = "done"
          /\ writers[w].r.method = "PUT"
          /\ DOMAIN writers[w].r.headers = {}
    /\ \A v, w \in Writers : writers[v].r.name = writers[w].r.name

\* C13: when two PUTs of one name without conditional headers are served
\* concurrently, both end in 201 or 204 and the row is then the candidate
\* of the one that committed last.
C13_LastWriteWins ==
    BothDone =>
        /\ \A w \in Writers : Success(writers[w].code)
        /\ \E w \in Writers :
              /\ \A v \in Writers : writers[v].order <= writers[w].order
              /\ files[writers[w].r.name] = writers[w].file

\* C14: no step lowers the modification time stored for a name.
C14_ModifiedNeverDecreases ==
    [][\A n \in DOMAIN files \cap DOMAIN files' :
          ArrowGet(files'[n].modified) >= ArrowGet(files[n].modified)]_vars

\* The name is a direct child of the scope: it lies under the prefix as a
\* path segment (or, for the empty prefix, at the top) with no further
\* separator.
DirectChild(prefix, n) ==
    LET stem == IF prefix = <<>> THEN <<>> ELSE prefix \o <<SLASH>>
    IN  /\ Len(n) > Len(stem)
        /\ SubSeq(n, 1, Len(stem)) = stem
        /\ Count(SubSeq(n, Len(stem) + 1, Len(n)), SLASH) = 0

\* C15: a FIND with recursive = false and no other filter, on the empty
\* prefix or on the prefix "children", returns exactly the stored names
\* that are direct children of the prefix.
C15_DirectChildren ==
    [][/\ Handles("FIND")
       /\ DOMAIN req'.json = {"recursive"}
       /\ req'.json["recursive"] = FALSE
       /\ req'.name \in {EMPTY, Children}
       => resp'.body = {n \in DOMAIN files : DirectChild(req'.name, n)}]_vars

\* C16: a FIND whose JSON object has two or more keys of one exclusive
\* group ends in 400 without a result and leaves the table as it was,
\* whatever the values and the other keys; any other FIND does not end in
\* 400.
C16_GroupExclusivity ==
    [][Handles("FIND") =>
        /\ SameGroup(req'.json) =>
              resp'.code = 400 /\ resp'.body = <<>> /\ files' = files
        /\ ~SameGroup(req'.json) => resp'.code \in {200, 440}]_vars

\* A FIND rejected with 400 for giving size = 0 and sizeLt = 0 next to a
\* tag filter, while files are stored.
C16_Witness ==
    /\ req.method = "FIND"
    /\ resp.code = 400
    /\ DOMAIN req.json = {"size", "sizeLt", "tag"}
    /\ req.json["size"] = 0
    /\ req.json["sizeLt"] = 0
    /\ DOMAIN files = FindNames

\* C17: a FIND ends in 400 exactly when its JSON object breaks the
\* exclusivity of a group; otherwise it ends in 440 with an empty result
\* when no name is found and in 200 with the names found when there is at
\* least one.  A FIND never changes the table.
C17_Outcomes ==
    [][Handles("FIND") =>
        /\ files' = files
        /\ resp'.code \in {200, 400, 440}
        /\ resp'.code = 400 <=> SameGroup(req'.json)
        /\ resp'.code /= 400 =>
              /\ resp'.body = FinderCall(files, Finder(req'.name, req'.json))
              /\ resp'.body \subseteq DOMAIN files
              /\ resp'.code = 440 <=> resp'.body = {}
              /\ resp'.code = 200 <=> resp'.body /= {}]_vars

\* A FIND with one valid filter answered 440 while all files are stored.
C17_Witness ==
    /\ req.method = "FIND"
    /\ resp.code = 440
    /\ DOMAIN req.json = {"tag2"}
    /\ req.name = Children
    /\ DOMAIN files = FindNames

\* C18: a FIND on the empty prefix whose only filter is size = n, sizeGt
\* = n or sizeLt = n, for any n >= 0, returns exactly the stored names
\* whose content has a length equal to, greater than, or less than n.
C18_SizeFilter ==
    [][/\ Handles("FIND")
       /\ req'.name = EMPTY
       /\ Cardinality(DOMAIN req'.json) = 1
       /\ DOMAIN req'.json \subseteq {"size", "sizeGt", "sizeLt"}
       => LET k == CHOOSE key \in DOMAIN req'.json : TRUE
              n == req'.json[k]
          IN  resp'.body =
                {m \in DOMAIN files :
                    CASE k = "size"   -> Len(files[m].content) = n
                      [] k = "sizeGt" -> Len(files[m].content) > n
                      [] k = "sizeLt" -> Len(files[m].content) < n}]_vars

InSegmentScope(prefix, n) ==
    LET stem == prefix \o <<SLASH>>
    IN  \/ n = prefix
        \/ Len(n) > Len(stem) /\ SubSeq(n, 1, Len(stem)) = stem

\* C20: a FIND on a prefix that is not empty returns only names that are
\* the prefix or lie under it as a path segment; a FIND on the empty
\* prefix without filters returns every stored name.
C20_PathScope ==
    [][Handles("FIND") /\ resp'.code \in {200, 440} =>
        IF req'.name = EMPTY
        THEN DOMAIN req'.json = {} => resp'.body = DOMAIN files
        ELSE \A n \in resp'.body : InSegmentScope(req'.name, n)]_vars

\* C21: after a PUT that ends in 201 or 204 the row of the name has the
\* name of the request, the content of the request, the tag of that
\* content and the time of the request, whatever the row held before.
C21_CoreFromCandidate ==
    [][Handles("PUT") /\ Success(resp'.code) =>
        LET row == files'[req'.name]
        IN  /\ row.name = req'.name
            /\ row.content = req'.data
            /\ row.etag = ETag(req'.data)
            /\ row.modified = IsoFormat(now)]_vars

\* An update with an empty content, at a later time, of a file whose
\* content was not empty: the If-Match it passed lists the tag of the
\* longest content only.
C21_Witness ==
    /\ req.method = "PUT"
    /\ resp.code = 204
    /\ req.data = <<>>
    /\ DOMAIN req.headers = {"If-Match"}
    /\ req.headers["If-Match"] = ETag(LongContent)
    /\ files[req.name].content = <<>>
    /\ files[req.name].etag = ETag(<<>>)
    /\ ArrowGet(files[req.name].modified) = MaxTime

\* C22: the handling of a request on a name leaves the rows of all other
\* names as they were; a PUT that ends in 201 adds the name, which was
\* not stored, a DELETE that ends in 204 removes the name, which was
\* stored, and every other request leaves the set of names as it was; a
\* GET or FIND changes nothing, and every row is kept under its own name.
C22_Frame ==
    [][req = NoReq /\ req' /= NoReq =>
        LET n == req'.name
            m == req'.method
        IN  /\ \A o \in DOMAIN files \ {n} :
                  o \in DOMAIN files' /\ files'[o] = files[o]
            /\ DOMAIN files' =
                  IF m = "PUT" /\ resp'.code = 201
                  THEN DOMAIN files \cup {n}
                  ELSE IF m = "DELETE" /\ resp'.code = 204
                  THEN DOMAIN files \ {n}
                  ELSE DOMAIN files
            /\ m = "PUT" /\ resp'.code = 201 => n \notin DOMAIN files
            /\ m = "DELETE" /\ resp'.code = 204 => n \in DOMAIN files
            /\ m \in {"GET", "FIND"} => files' = files
            /\ resp'.code \in {400, 404, 412} => files' = files
            /\ \A o \in DOMAIN files' : files'[o].name = o]_vars

\* A DELETE that removed children/a.txt and left the three other files.
C22_Witness ==
    /\ req.method = "DELETE"
    /\ resp.code = 204
    /\ req.name = ChildA
    /\ DOMAIN files = FindNames \ {ChildA}

\* The step is the commit of the request the worker serves.
Commits(w) ==
    writers[w].pc \in {"fetched", "checked"} /\ writers'[w].pc = "done"

\* C23: when PUTs and DELETEs of one name are served concurrently, the
\* commit of a PUT that ends in 201 or 204 leaves a row of the name with
\* the content and the tag of its candidate.
C23_SuccessPersists ==
    [][\A w \in Writers :
          /\ Commits(w)
          /\ writers[w].r.method = "PUT"
          /\ Success(writers'[w].code)
          => LET n == writers[w].r.name
             IN  /\ n \in DOMAIN files'
                 /\ files'[n].content = writers[w].file.content
                 /\ files'[n].etag = writers[w].file.etag]_vars

\* C24: the commit of a PUT or DELETE that carries an If-Match and ends
\* in 204 overwrites or removes a row only when the tag the row has at
\* that moment is listed in the If-Match.
C24_MatchAtCommit ==
    [][\A w \in Writers :
          /\ Commits(w)
          /\ Supplied(writers[w].r.headers, "If-Match")
          /\ writers'[w].code = 204
          /\ writers[w].r.name \in DOMAIN files
          => files[writers[w].r.name].etag
                 \in TagsOf(writers[w].r.headers["If-Match"])]_vars

\* The step is the fetch of the request the worker serves, with its
\* conditionals.
Fetches(w) ==
    \/ writers[w].pc = "built" /\ writers'[w].pc /= "built"
    \/ /\ writers[w].pc = "idle"
       /\ writers'[w].pc /= "idle"
       /\ writers'[w].r.method = "DELETE"

\* C24, amended: a PUT or DELETE of a stored name that carries an
\* If-Match ends in 412, without a commit, exactly when the tag of the row
\* it fetches is not listed; otherwise it goes on to its commit, which
\* ends in 204 whatever tag the row has by then.
C24_MatchAtFetch ==
    [][\A w \in Writers :
          LET r == writers'[w].r
          IN  /\ /\ Fetches(w)
                 /\ Supplied(r.headers, "If-Match")
                 /\ r.name \in DOMAIN files
                 => IF files[r.name].etag \notin TagsOf(r.headers["If-Match"])
                    THEN writers'[w].pc = "done" /\ writers'[w].code = 412
                    ELSE /\ writers'[w].pc \in {"fetched", "checked"}
                         /\ writers'[w].code = 204
              /\ Commits(w) /\ writers[w].code = 204 =>
                    writers'[w].code = 204]_vars

\* Two PUTs with the If-Match of the tag of the longest content have both
\* ended in 204: the first to commit stored the empty content, whose tag
\* the If-Match does not list, and the second stored the longest content
\* over it.
C24_Witness ==
    \E v, w \in Writers :
        /\ writers[v].pc = "done" /\ writers[w].pc = "done"
        /\ writers[v].r.method = "PUT" /\ writers[w].r.method = "PUT"
        /\ writers[v].code = 204 /\ writers[w].code = 204
        /\ writers[v].order = 1 /\ writers[w].order = 2
        /\ Supplied(writers[v].r.headers, "If-Match")
        /\ Supplied(writers[w].r.headers, "If-Match")
        /\ writers[v].r.data = <<>>
        /\ writers[w].r.data = LongContent
        /\ files[TestTxt].content = LongContent

====
